---------------------------- MODULE Spec2Model ----------------------------
(***************************************************************************)
(* Model of src/app.py (GSC | Top Query, a Streamlit application).         *)
(*                                                                         *)
(* A Python str is a sequence of one-character strings, so that split,     *)
(* strip, join, regular-expression search and lexicographic comparison are *)
(* computed character by character.  A DataFrame is the sequence of its    *)
(* rows, each row a record of its columns.                                 *)
(***************************************************************************)
EXTENDS Integers, Sequences, FiniteSets

\* Most rows the Record Source returns in a modelled run.
MaxRows == 3

(***************************************************************************)
(* Python str                                                              *)
(***************************************************************************)

\* Code point of a character: Python compares str by code point.
Ord(c) ==
    CASE c = " " -> 32
      [] c = "," -> 44
      [] c = "." -> 46
      [] c = "/" -> 47
      [] c = "a" -> 97
      [] c = "b" -> 98
      [] c = "x" -> 120
      [] c = "y" -> 121
      [] c = "|" -> 124

\* s < t for Python str: the first differing code point decides, a proper
\* prefix is smaller.
StrLess(s, t) ==
    \E k \in 1..(Len(t)) :
        /\ \A j \in 1..(k - 1) : j <= Len(s) /\ s[j] = t[j]
        /\ \/ k = Len(s) + 1
           \/ k <= Len(s) /\ Ord(s[k]) < Ord(t[k])

\* s.split(sep) for a one-character separator: the pieces between the
\* separators, empty pieces kept.
RECURSIVE Split(_, _)
Split(s, sep) ==
    IF \A i \in 1..Len(s) : s[i] # sep
    THEN << s >>
    ELSE LET i == CHOOSE k \in 1..Len(s) :
                      s[k] = sep /\ \A j \in 1..(k - 1) : s[j] # sep
         IN  << SubSeq(s, 1, i - 1) >> \o Split(SubSeq(s, i + 1, Len(s)), sep)

\* str.strip: leading and trailing whitespace removed.
RECURSIVE Strip(_)
Strip(s) ==
    IF s = << >> THEN s
    ELSE IF Head(s) = " " THEN Strip(Tail(s))
    ELSE IF s[Len(s)] = " " THEN Strip(SubSeq(s, 1, Len(s) - 1))
    ELSE s

\* sep.join(parts)
RECURSIVE Join(_, _)
Join(sep, parts) ==
    IF parts = << >> THEN << >>
    ELSE IF Len(parts) = 1 THEN parts[1]
    ELSE parts[1] \o << sep >> \o Join(sep, Tail(parts))

\* list(map(str.strip, parts))
MapStrip(parts) == [i \in 1..Len(parts) |-> Strip(parts[i])] \o << >>

(***************************************************************************)
(* Regular expressions (Series.str.contains is re.search on each value).   *)
(* Over the modelled alphabet a pattern is an alternation ("|") of         *)
(* sequences of atoms; "." matches any character, every other character    *)
(* matches itself.                                                         *)
(***************************************************************************)

\* The atom a of a pattern matches the character c.
AtomMatches(a, c) == a = "." \/ a = c

\* The alternative alt matches s at position i (0-based offset).
MatchAt(alt, s, i) ==
    /\ i + Len(alt) <= Len(s)
    /\ \A k \in 1..Len(alt) : AtomMatches(alt[k], s[i + k])

\* re.search(pattern, s) finds a match.
Search(pattern, s) ==
    \E n \in 1..Len(Split(pattern, "|")) :
        \E i \in 0..Len(s) : MatchAt(Split(pattern, "|")[n], s, i)


(***************************************************************************)
(* DataFrame operations                                                    *)
(***************************************************************************)

\* DataFrame.empty
Empty(df) == Len(df) = 0

\* The rows of a frame built row by row, as a sequence.
Frame(rows) == rows \o << >>

\* Row a sorts strictly before row b under by=[col, metrics],
\* ascending=[True, False].
RowBefore(a, b, col, metrics) ==
    \/ StrLess(a[col], b[col])
    \/ a[col] = b[col] /\ a[metrics] > b[metrics]

\* The sorted rows with row r put behind every row it does not sort
\* strictly before.
RECURSIVE InsertRow(_, _, _, _)
InsertRow(r, sorted, col, metrics) ==
    IF sorted = << >> THEN << r >>
    ELSE IF RowBefore(r, sorted[Len(sorted)], col, metrics)
         THEN Append(InsertRow(r, SubSeq(sorted, 1, Len(sorted) - 1), col, metrics),
                     sorted[Len(sorted)])
         ELSE Append(sorted, r)

\* df.sort_values(by=[col, metrics], ascending=[True, False]): a multi-key
\* sort is a lexsort, which is stable: rows equal on both keys keep the
\* order they have in df.
RECURSIVE SortValues(_, _, _)
SortValues(df, col, metrics) ==
    IF df = << >> THEN << >>
    ELSE InsertRow(df[Len(df)], SortValues(SubSeq(df, 1, Len(df) - 1), col, metrics),
                   col, metrics)

\* "|".join(list(map(str.strip, brand_term.split(','))))
BrandPattern(brand_term) == Join("|", MapStrip(Split(brand_term, ",")))

\* if brand_term: df = df[~df['query'].str.contains(pattern)]
FilterBrand(df, brand_term) ==
    IF brand_term = << >> THEN df
    ELSE LET Keep(r) == ~Search(BrandPattern(brand_term), r.query)
         IN  SelectSeq(df, Keep)

\* FilterZeroClicks with the comparison clicks >= 0.
FilterZeroClicksInclusive(df, zero_clicks) ==
    IF zero_clicks = "Si"
    THEN LET Keep(r) == r.clicks >= 0 IN SelectSeq(df, Keep)
    ELSE df

\* if zero_clicks == "Si": df = df.loc[df['clicks'] > 0]
FilterZeroClicks(df, zero_clicks) ==
    IF zero_clicks = "Si"
    THEN LET Keep(r) == r.clicks > 0 IN SelectSeq(df, Keep)
    ELSE df

\* SortByPage ranking by clicks whatever the selected metric.
SortByPageClicks(df, metrics) == SortValues(df, "page", "clicks")

\* SortByPage with an unstable sort: rows equal on both keys come out in
\* the reverse of their order in df.
SortByPageTiesReversed(df, metrics) ==
    SortValues(Frame([i \in 1..Len(df) |-> df[Len(df) + 1 - i]]), "page", metrics)

\* df.sort_values(by=['page', metrics], ascending=[True, False])
SortByPage(df, metrics) == SortValues(df, "page", metrics)

\* df.groupby('page')['query'].transform('first'): for the row at i, the
\* query of the first row of df with the same page.
GroupFirstQuery(df, i) ==
    df[CHOOSE j \in 1..Len(df) :
           /\ df[j].page = df[i].page
           /\ \A k \in 1..(j - 1) : df[k].page # df[i].page].query

\* WithTopQuery as an aggregation (groupby('page').first()) in place of the
\* transform: one row for each page, the first.
WithTopQueryFirstRows(df) ==
    LET firsts == {i \in 1..Len(df) : \A k \in 1..(i - 1) : df[k].page # df[i].page}
        Nth(n) == CHOOSE i \in firsts : Cardinality({j \in firsts : j < i}) = n - 1
    IN  Frame([n \in 1..Cardinality(firsts) |->
            [query |-> df[Nth(n)].query, page |-> df[Nth(n)].page,
             clicks |-> df[Nth(n)].clicks, impressions |-> df[Nth(n)].impressions,
             ctr |-> df[Nth(n)].ctr, top_query |-> df[Nth(n)].query]])

\* df['top_query'] = df.groupby('page')['query'].transform('first')
WithTopQuery(df) ==
    Frame([i \in 1..Len(df) |->
        [query |-> df[i].query, page |-> df[i].page, clicks |-> df[i].clicks,
         impressions |-> df[i].impressions, ctr |-> df[i].ctr,
         top_query |-> GroupFirstQuery(df, i)]])

\* GroupCount grouping by top_query in place of page.
GroupCountByTopQuery(df, i) ==
    Cardinality({j \in 1..Len(df) : df[j].top_query = df[i].top_query})

\* df.groupby('page')['top_query'].transform('count'): for the row at i,
\* the number of rows of df with the same page.
GroupCount(df, i) == Cardinality({j \in 1..Len(df) : df[j].page = df[i].page})

\* df['q_pages_top_query'] = ...; df = df[['top_query', 'query', 'clicks',
\* 'impressions', 'ctr', 'q_pages_top_query', 'page']]
WithCount(df) ==
    Frame([i \in 1..Len(df) |->
        [top_query |-> df[i].top_query, query |-> df[i].query,
         clicks |-> df[i].clicks, impressions |-> df[i].impressions,
         ctr |-> df[i].ctr, q_pages_top_query |-> GroupCount(df, i),
         page |-> df[i].page]])

\* SortByTopQuery left out: the rows stay in the order of the page sort.
SortByTopQuerySkipped(df, metrics) == df

\* df.sort_values(by=['top_query', metrics], ascending=[True, False])
SortByTopQuery(df, metrics) == SortValues(df, "top_query", metrics)

\* Lines 190-201 of get_top_query: the table built from the filtered rows.
TopQueryTable(df, metrics) ==
    SortByTopQuery(WithCount(WithTopQuery(SortByPage(df, metrics))), metrics)

(***************************************************************************)
(* Data fetching                                                           *)
(***************************************************************************)

\* fetch_query_page with an except clause that neither logs nor reports.
fetch_query_page_silent(source) ==
    IF source.raises \/ Empty(source.rows)
    THEN [df |-> << >>, logged |-> FALSE, st_error |-> FALSE]
    ELSE [df |-> source.rows, logged |-> FALSE, st_error |-> FALSE]

\* fetch_query_page: the rows of the Record Source; an error of the source,
\* or an empty answer (turned into an exception), is caught, logged with
\* logging.error, reported with st.error, and an empty DataFrame returned.
fetch_query_page(source) ==
    IF source.raises \/ Empty(source.rows)
    THEN [df |-> << >>, logged |-> TRUE, st_error |-> TRUE]
    ELSE [df |-> source.rows, logged |-> FALSE, st_error |-> FALSE]

\* get_top_query: raises "No hay Dataframe" on an empty fetch, otherwise
\* returns the table of the rows left by the two filters.
get_top_query(source, metrics, brand_term, zero_clicks) ==
    LET f == fetch_query_page(source)
    IN  IF Empty(f.df)
        THEN [raised |-> TRUE, report |-> << >>,
              logged |-> f.logged, st_error |-> f.st_error]
        ELSE [raised |-> FALSE,
              report |-> TopQueryTable(
                  FilterZeroClicks(FilterBrand(f.df, brand_term), zero_clicks),
                  metrics),
              logged |-> f.logged, st_error |-> f.st_error]

(***************************************************************************)
(* State                                                                   *)
(***************************************************************************)

VARIABLES
    query_code,     \* st.query_params: the "code" parameter of the session's URL
    credentials,    \* st.session_state.credentials
    brand_term,     \* the text typed into the brand-term input
    metrics,        \* the metric chosen in the radio selector
    zero_clicks,    \* the choice of the zero-click radio selector
    pc,             \* where main is: "idle" between runs, or the call it waits in
    view,           \* what main rendered last: nothing, the login or the form
    fetched_token,  \* the last run called auth_flow.fetch_token
    clicked,        \* the last run saw "Obtener Top Query" pressed
    gsc,            \* what the Search Console API answered to its query
    raised,         \* the exception that ended the last run, "none" if none
    shown,          \* the last run reached show_dataframe and download_csv
    report,         \* the table they were given
    logged,         \* the last run called logging.error
    st_error        \* the last run called st.error

vars == << query_code, credentials, brand_term, metrics, zero_clicks, pc, view,
           fetched_token, clicked, gsc, raised, shown, report, logged, st_error >>

\* The values the three widgets of the data form hold.
widgets == << brand_term, metrics, zero_clicks >>

\* st.session_state.get('credentials') of a session that has none.
NoCredentials == [kind |-> "None"]

\* auth_flow.credentials after fetch_token(code=code) succeeded.
Credentials(code) == [kind |-> "Credentials", code |-> code]

(***************************************************************************)
(* Inputs                                                                  *)
(***************************************************************************)

\* The query parameters of the URL: no code, an empty code, or the code of
\* an OAuth callback.
NoCode == [present |-> FALSE, value |-> ""]
QueryParams == {NoCode} \cup {[present |-> TRUE, value |-> c] : c \in {"", "c1"}}

Queries == { <<"a", "b">>, <<"b">> }
Pages == { <<"/", "x">>, <<"/", "y">> }
\* << clicks, impressions >> of a row; ctr is their ratio, kept as the pair.
Counts == { <<0, 2>>, <<2, 1>> }

Records ==
    { [query |-> q, page |-> p, clicks |-> m[1], impressions |-> m[2], ctr |-> m] :
        q \in Queries, p \in Pages, m \in Counts }

\* gsc of a run that sent no query.
NoQuery == [raises |-> FALSE, rows |-> << >>]

\* The answers of the Record Source with at most n rows, and its failure.
Sources(n) ==
    { [raises |-> FALSE, rows |-> rows] : rows \in UNION { [1..k -> Records] : k \in 0..n } }
        \cup { [raises |-> TRUE, rows |-> << >>] }

\* "", "a", "ba", ".", "a.", "a,", "x, a " and " " typed as the brand terms.
BrandTerms ==
    { << >>, <<"a">>, <<"b", "a">>, <<".">>, <<"a", ".">>, <<"a", ",">>,
      <<"x", ",", " ", "a", " ">>, <<" ">> }

\* A new session: main has not run yet.  The widgets hold their defaults:
\* an empty text input, the first metric, and index 1 of ["Si", "No"].
Init ==
    /\ query_code \in QueryParams
    /\ brand_term = << >>
    /\ metrics = "clicks"
    /\ zero_clicks = "No"
    /\ credentials = NoCredentials
    /\ pc = "idle"
    /\ gsc = NoQuery
    /\ view = "start"
    /\ fetched_token = FALSE
    /\ clicked = FALSE
    /\ raised = "none"
    /\ shown = FALSE
    /\ report = << >>
    /\ logged = FALSE
    /\ st_error = FALSE

(***************************************************************************)
(* main: a run of the script, one action per path between two of its       *)
(* network calls                                                           *)
(***************************************************************************)

\* auth_code of main: the "code" query parameter, "" standing for None.
AuthCode == IF query_code.present THEN query_code.value ELSE ""

\* NeedsToken without the test of the stored credentials.
NeedsTokenIgnoringSession == AuthCode # ""

\* if auth_code and not st.session_state.get('credentials')
NeedsToken == AuthCode # "" /\ credentials = NoCredentials

\* A run starts: nothing of it has been rendered, raised or fetched yet.
RunStarts ==
    /\ raised' = "none"
    /\ clicked' = FALSE
    /\ gsc' = NoQuery
    /\ shown' = FALSE
    /\ report' = << >>
    /\ logged' = FALSE
    /\ st_error' = FALSE

\* What a run after its start leaves alone unless it says otherwise.
fetch_outcome == << gsc, shown, report, logged, st_error >>

\* A run with a code in the URL and no credentials stored: main calls
\* auth_flow.fetch_token and waits for the token endpoint.
MainTokenCall ==
    /\ pc = "idle"
    /\ NeedsToken
    /\ pc' = "fetch_token"
    /\ fetched_token' = TRUE
    /\ RunStarts
    /\ UNCHANGED << query_code, credentials, widgets, view >>

\* fetch_token raises (a code that is invalid, expired or already used): the
\* run ends before anything is stored or rendered.
MainTokenError ==
    /\ pc = "fetch_token"
    /\ pc' = "idle"
    /\ raised' = "fetch_token"
    /\ view' = "start"
    /\ UNCHANGED << query_code, credentials, widgets, fetched_token, clicked,
                    fetch_outcome >>

\* fetch_token returns: the credentials are stored, main takes the branch
\* of the data form and asks the Search Console API for the properties.
MainTokenReturn ==
    /\ pc = "fetch_token"
    /\ pc' = "listing"
    /\ credentials' = Credentials(AuthCode)
    /\ UNCHANGED << query_code, widgets, view, fetched_token, clicked, raised,
                    fetch_outcome >>

\* A run with no token to fetch and no credentials stored: the login button
\* is rendered, and the sign-in link when the button, rendered by the run
\* before, was pressed.
MainLogin(auth_click) ==
    /\ pc = "idle"
    /\ ~NeedsToken
    /\ credentials = NoCredentials
    /\ auth_click => view \in {"login", "login_link"}
    /\ fetched_token' = FALSE
    /\ view' = IF auth_click THEN "login_link" ELSE "login"
    /\ RunStarts
    /\ UNCHANGED << query_code, credentials, widgets, pc >>

\* A run with credentials stored: main takes the branch of the data form
\* and asks the Search Console API for the properties.
MainListCall ==
    /\ pc = "idle"
    /\ ~NeedsToken
    /\ credentials # NoCredentials
    /\ pc' = "listing"
    /\ fetched_token' = FALSE
    /\ RunStarts
    /\ UNCHANGED << query_code, credentials, widgets, view >>

\* auth_search_console, list_gsc_properties or the lookup of the selected
\* property raises: the run ends before a widget of the form is read.
MainListError ==
    /\ pc = "listing"
    /\ pc' = "idle"
    /\ raised' = "properties"
    /\ view' = "start"
    /\ UNCHANGED << query_code, credentials, widgets, fetched_token, clicked,
                    fetch_outcome >>

\* The three widgets return term, metric and zero: any values when the run
\* before rendered them, the values they hold when it did not.
WidgetsReturn(term, metric, zero) ==
    /\ view = "form" \/ << term, metric, zero >> = widgets
    /\ brand_term' = term
    /\ metrics' = metric
    /\ zero_clicks' = zero

\* The properties are listed, the data form is rendered and its widgets are
\* read; "Obtener Top Query" is not pressed and the run ends.
MainForm(term, metric, zero) ==
    /\ pc = "listing"
    /\ WidgetsReturn(term, metric, zero)
    /\ pc' = "idle"
    /\ view' = "form"
    /\ UNCHANGED << query_code, credentials, fetched_token, clicked, raised,
                    fetch_outcome >>

\* The properties are listed, the data form is rendered and its widgets are
\* read; "Obtener Top Query", rendered by the run before, was pressed:
\* show_fetch_data_button calls get_top_query with the values read, which
\* calls fetch_query_page, which sends the query to the API and waits.
MainFetchCall(term, metric, zero) ==
    /\ pc = "listing"
    /\ view = "form"
    /\ WidgetsReturn(term, metric, zero)
    /\ pc' = "fetching"
    /\ view' = "form"
    /\ clicked' = TRUE
    /\ UNCHANGED << query_code, credentials, fetched_token, raised, fetch_outcome >>

\* The API answers with source: fetch_query_page and get_top_query run to
\* their end and, when get_top_query returns, show_dataframe and
\* download_csv are given its table; the run ends.
MainFetchReturn(source) ==
    /\ pc = "fetching"
    /\ pc' = "idle"
    /\ gsc' = source
    /\ \E r \in {get_top_query(source, metrics, brand_term, zero_clicks)} :
           /\ raised' = IF r.raised THEN "No hay Dataframe" ELSE "none"
           /\ shown' = ~r.raised
           /\ report' = r.report
           /\ logged' = r.logged
           /\ st_error' = r.st_error
    /\ UNCHANGED << query_code, credentials, widgets, view, fetched_token, clicked >>

Next ==
    \/ MainTokenCall
    \/ MainTokenError
    \/ MainTokenReturn
    \/ \E auth_click \in BOOLEAN : MainLogin(auth_click)
    \/ MainListCall
    \/ MainListError
    \/ \E term \in BrandTerms, metric \in {"clicks", "impressions"}, zero \in {"Si", "No"} :
           \/ MainForm(term, metric, zero)
           \/ MainFetchCall(term, metric, zero)
    \/ /\ pc = "fetching"
       /\ \E source \in Sources(MaxRows) : MainFetchReturn(source)

Spec == Init /\ [][Next]_vars

(***************************************************************************)
(* Properties                                                              *)
(***************************************************************************)

\* The query, page, clicks, impressions and ctr of the rows of a table.
Underlying(table) ==
    Frame([k \in 1..Len(table) |->
        [query |-> table[k].query, page |-> table[k].page,
         clicks |-> table[k].clicks, impressions |-> table[k].impressions,
         ctr |-> table[k].ctr]])

\* How often x occurs in the sequence s.
Occurrences(s, x) == Cardinality({i \in 1..Len(s) : s[i] = x})

\* s and t hold the same elements, each as often in s as in t.
SameRows(s, t) ==
    /\ Len(s) = Len(t)
    /\ \A i \in 1..Len(s) : Occurrences(s, s[i]) = Occurrences(t, s[i])

\* The rows of the last fetch that pass both filters, in the order the
\* source gave them.
Filtered == FilterZeroClicks(FilterBrand(gsc.rows, brand_term), zero_clicks)

\* The positions in F of the rows of page p.
OfPage(F, p) == {i \in 1..Len(F) : F[i].page = p}

\* Position i holds the first row of page p in F whose metric is the
\* maximum of the page.
FirstMaximum(F, p, i) ==
    /\ i \in OfPage(F, p)
    /\ \A j \in OfPage(F, p) : F[j][metrics] <= F[i][metrics]
    /\ \A j \in OfPage(F, p) : j < i => F[j][metrics] < F[i][metrics]

\* C1: every page of the filtered rows is in the table, and the top_query of
\* each row of the table is the query of the filtered row of its page with
\* the maximum metric, the first such row in the filtered order on a tie.
TopQueryIsFirstMaximum ==
    shown =>
        \A F \in {Filtered} :
            /\ \A i \in 1..Len(F) : \E k \in 1..Len(report) : report[k].page = F[i].page
            /\ \A k \in 1..Len(report) :
                   \E i \in 1..Len(F) :
                       /\ FirstMaximum(F, report[k].page, i)
                       /\ report[k].top_query = F[i].query

\* C1 witness: a table for a page whose maximum is held by two rows with
\* different queries.
TopQueryTieWitness ==
    /\ shown
    /\ \E i, j \in 1..Len(Filtered) :
           /\ i < j
           /\ FirstMaximum(Filtered, Filtered[i].page, i)
           /\ Filtered[j].page = Filtered[i].page
           /\ Filtered[j][metrics] = Filtered[i][metrics]
           /\ Filtered[j].query # Filtered[i].query

\* C3: the table is sorted by top_query ascending and, among rows of one
\* top_query, by the selected metric descending.
SortedByTopQueryThenMetric ==
    shown =>
        \A i, j \in 1..Len(report) :
            i < j =>
                \/ StrLess(report[i].top_query, report[j].top_query)
                \/ /\ report[i].top_query = report[j].top_query
                   /\ report[i][metrics] >= report[j][metrics]

\* C3 witness: two pages share a top_query and a row of one lies between
\* two rows of the other.
InterleavedPagesWitness ==
    /\ shown
    /\ \E i, j, k \in 1..Len(report) :
           /\ i < j /\ j < k
           /\ report[i].page = report[k].page
           /\ report[j].page # report[i].page
           /\ report[i].top_query = report[j].top_query
           /\ report[j].top_query = report[k].top_query
           /\ report[i][metrics] >= report[j][metrics]
           /\ report[j][metrics] >= report[k][metrics]
           /\ report[i][metrics] > report[k][metrics]

\* C4: q_pages_top_query of every row is the number of filtered rows of its
\* page; it is at least 1, and a row alone on its page is its own top_query.
CountIsPageGroupSize ==
    shown =>
        \A F \in {Filtered} :
            \A k \in 1..Len(report) :
                /\ report[k].q_pages_top_query = Cardinality(OfPage(F, report[k].page))
                /\ report[k].q_pages_top_query >= 1
                /\ report[k].q_pages_top_query = 1 =>
                       report[k].top_query = report[k].query

\* C4 witness: a table with a page of one row and a page of several rows
\* that have the same top_query.
CountWitness ==
    /\ shown
    /\ \E k, l \in 1..Len(report) :
           /\ report[k].q_pages_top_query = 1
           /\ report[l].q_pages_top_query >= 2
           /\ report[k].top_query = report[l].top_query

\* C5: a fetch whose source fails or answers with no rows ends in the
\* exception of get_top_query, nothing reaches show_dataframe and
\* download_csv, and the failure is logged and reported with st.error.
SourceFailureFailsTheFetch ==
    (pc = "idle" /\ clicked /\ (gsc.raises \/ gsc.rows = << >>)) =>
        /\ raised = "No hay Dataframe"
        /\ ~shown
        /\ report = << >>
        /\ logged
        /\ st_error

\* C5 witness: a fetch whose source raised an error.
SourceErrorWitness ==
    pc = "idle" /\ clicked /\ gsc.raises /\ raised = "No hay Dataframe"

\* C7: aggregating the underlying rows of the table again, in the order of
\* the table and with the same metric, gives every row the top_query and
\* the q_pages_top_query it has.
AggregationIdempotent ==
    shown => SameRows(TopQueryTable(Underlying(report), metrics), report)

\* C7 witness: a table of two pages, one of them with two rows of different
\* queries that tie on the metric at the maximum.
IdempotentTieWitness ==
    /\ shown
    /\ \E i, j, k \in 1..Len(report) :
           /\ i < j
           /\ report[i].page = report[j].page
           /\ report[i][metrics] = report[j][metrics]
           /\ report[i].query # report[j].query
           /\ report[i].top_query \in {report[i].query, report[j].query}
           /\ report[k].page # report[i].page

\* C8: the table holds exactly the filtered rows, duplicates included, each
\* with its query, page, clicks, impressions and ctr, and never more rows
\* than the source gave.
RowsPreserved ==
    shown =>
        /\ SameRows(Underlying(report), Filtered)
        /\ Len(report) <= Len(gsc.rows)

\* C8 witness: a table that holds a row twice.
DuplicateRowsWitness ==
    /\ shown
    /\ \E i, j \in 1..Len(report) : i < j /\ report[i] = report[j]

\* C9: with zero_clicks = "Si" no row of the table has clicks <= 0, the
\* rows, the counts and the top queries are those of the brand-filtered rows
\* with clicks > 0; otherwise the table has every brand-filtered row.
ZeroClickRowsExcluded ==
    shown =>
        \A B \in {FilterBrand(gsc.rows, brand_term)} :
            IF zero_clicks = "Si"
            THEN /\ Len(report) = Cardinality({i \in 1..Len(B) : B[i].clicks > 0})
                 /\ \A k \in 1..Len(report) :
                        /\ report[k].clicks > 0
                        /\ report[k].q_pages_top_query =
                               Cardinality({i \in OfPage(B, report[k].page) :
                                                B[i].clicks > 0})
                        /\ \E i \in OfPage(B, report[k].page) :
                               B[i].clicks > 0 /\ B[i].query = report[k].top_query
            ELSE Len(report) = Len(B)

\* C9 witness: a table made with zero_clicks = "Si" from rows of which one
\* has no clicks, the most impressions of its page, and company on the page.
ZeroClickWitness ==
    /\ shown
    /\ zero_clicks = "Si"
    /\ metrics = "impressions"
    /\ \E i, j \in 1..Len(gsc.rows) :
           /\ gsc.rows[i].clicks = 0
           /\ gsc.rows[j].clicks > 0
           /\ gsc.rows[j].page = gsc.rows[i].page
           /\ gsc.rows[j].impressions < gsc.rows[i].impressions
    /\ \E i \in 1..Len(gsc.rows) :
           /\ gsc.rows[i].clicks = 0
           /\ \A k \in 1..Len(report) : report[k].page # gsc.rows[i].page

\* C10: a run calls fetch_token only when the URL holds a code and no
\* credentials are stored; stored credentials are never replaced or
\* cleared; the branch of the data form, and with it get_top_query, is
\* reached only in a run with credentials stored.
TokenOnceAndFormBehindCredentials ==
    [][ /\ pc' = "fetch_token" => (AuthCode # "" /\ credentials = NoCredentials)
        /\ (pc = "idle" /\ fetched_token') => pc' = "fetch_token"
        /\ credentials # NoCredentials => credentials' = credentials
        /\ pc' \in {"listing", "fetching"} => credentials' # NoCredentials
        /\ view' = "form" => credentials' # NoCredentials
        /\ (clicked' \/ shown' \/ raised' = "No hay Dataframe") =>
               (view' = "form" /\ credentials' # NoCredentials) ]_vars

\* C10 witness: a rerun that fetched data with credentials stored and the
\* code still in the URL, without a token exchange.
RerunKeepsCredentialsWitness ==
    /\ credentials = Credentials("c1")
    /\ AuthCode = "c1"
    /\ ~fetched_token
    /\ clicked
    /\ shown

(***************************************************************************)
(* Statements the code does not satisfy                                    *)
(***************************************************************************)

\* C2: a fetch whose source gave rows, all of them removed by the filters,
\* ends in the exception of get_top_query and shows no table.
AllFilteredIsEmptyInput ==
    (pc = "idle" /\ clicked /\ ~gsc.raises /\ gsc.rows # << >> /\ Filtered = << >>) =>
        (raised = "No hay Dataframe" /\ ~shown)

\* The string t occurs in the string s.
Contains(s, t) == \E i \in 0..(Len(s) - Len(t)) : SubSeq(s, i + 1, i + Len(t)) = t

\* The comma-separated, whitespace-trimmed terms of brand_term.
Terms == MapStrip(Split(brand_term, ","))

\* C6: with a brand term given (and zero-click rows kept) the table holds
\* exactly the rows whose query contains none of the terms as a substring;
\* with none given it holds every row.
BrandFilterIsSubstring ==
    (shown /\ zero_clicks = "No") =>
        LET Keep(r) == brand_term = << >> \/
                       \A n \in 1..Len(Terms) : ~Contains(r.query, Terms[n])
        IN  SameRows(Underlying(report), SelectSeq(gsc.rows, Keep))

=============================================================================
